---- MODULE Spec2Model ----
(***************************************************************************)
(* Library loading of BuildingMOTIF (buildingmotif/dataclasses/library.py): *)
(* the two loaders (_load_from_directory, _load_from_ontology_graph), the   *)
(* resolution of raw dependency specs (_template_dependency.to_template)    *)
(* and the persistence operations they call.  A load is a sequence of       *)
(* persistence operations; each one is a step of the model.                 *)
(***************************************************************************)
EXTENDS Integers, Sequences, FiniteSets, TLC

\* ------------------------------------------------------------------ bounds
MaxLoads == 2       \* loads started in one behaviour
MaxTemplates == 3   \* template rows the store holds (ids 1..MaxTemplates)
MaxRows == 2        \* rows of the dependency table of the migrated database
MaxModels == 1      \* models the API serves (ids 1..MaxModels)

\* ------------------------------------------------------------ input values
None == "None"      \* Python's None, for a name
NoId == 0           \* Python's None, for an id
Err == NoId          \* "the call raised": no template / no library id
LibNames == {"L", "M"}
Names == {"a", "b"}
ParamSets == {{"name"}}
Bindings == {{<<"name", "x">>}, {<<"zzz", "x">>}}
ExplicitIds == {NoId, 1}
ShapeFiles == {{}, {[file |-> "shapes.ttl"]}}
NodeKinds == {"class", "shape", "both"}

\* a raw dependency spec, as the YAML file or the shape extractor gives it:
\* {template, args, library?, template_id?}
\* the specs used: a plain one for every name (a name alone, "c" being the name
\* of a template that no library has), and for the name "a" also the ones that
\* carry one of: a library, an explicit id, bindings the dependee does not declare
PlainArgs == {<<"name", "x">>}
DepNames == Names \cup {"c"}
RawDeps ==
    {d \in [template : DepNames, args : Bindings,
            library : {None, "M"}, template_id : ExplicitIds] :
        LET extras == {f \in {"args", "library", "template_id"} :
                         \/ f = "args" /\ d.args # PlainArgs
                         \/ f = "library" /\ d.library # None
                         \/ f = "template_id" /\ d.template_id # NoId}
        IN  \/ extras = {}
            \/ Cardinality(extras) = 1 /\ d.template = "a"}

\* the dependency lists of one template entry
DepLists == {<<>>} \cup {<<d>> : d \in RawDeps}

\* a template entry of a YAML file; malformed: create_template raises on it
Entries == [name : Names, params : ParamSets, malformed : {FALSE}, dependencies : DepLists]
           \cup [name : Names, params : ParamSets, malformed : {TRUE}, dependencies : {<<>>}]

\* an ontology graph: the ontology identifiers it declares, and per node whether
\* it is declared owl:Class, sh:NodeShape or both, with the raw dependency specs
\* get_template_parts_from_shape extracts from it
Graphs ==
    {g \in [onts : SUBSET LibNames, kind : [Names -> NodeKinds],
            dependencies : [Names -> DepLists]] :
        \A n \in Names : g.kind[n] # "both" => g.dependencies[n] = <<>>}

VARIABLES
    libraries,           \* library table: libraries[id] = name
    templates,           \* template table: templates[id] = [name, library_id, params]
    deps,                \* deps[id] = ordered list of [dependee, bindings] of template id
    shapes,              \* shapes[library id] = content of the library's ShapeCollection
    pc,                  \* position of the running load
    lib,                 \* id of the library being loaded (Err: none)
    template_id_lookup,  \* batch-local table name -> id
    dependency_cache,    \* id -> raw dependency specs, in order
    cursor,              \* position of pass 2 in its iteration
    ontology,            \* the graph of an ontology-mode load
    reported,            \* dependency specs the load logged a warning for
    result,              \* how the last load ended
    last,                \* what the last step of pass 2 did
    nloads,
    sources,             \* the directories _load_from_directory was called with
    call,                \* the last call of Library.load: arguments and outcome
    deps_association_table,  \* the rows of the dependency table of a migrated database
    schema,              \* the revision of that database
    model_graph,         \* the stored graph of the model behind /models/<id>/graph
    response             \* the last response of that endpoint

vars == <<libraries, templates, deps, shapes, pc, lib, template_id_lookup,
          dependency_cache, cursor, ontology, reported, result, last, nloads,
          sources, call, deps_association_table, schema, model_graph, response>>

\* the state outside the library loaders
aux == <<deps_association_table, schema, model_graph, response>>

store == <<libraries, templates, deps, shapes>>

NoGraph == [onts |-> {}, kind |-> [n \in Names |-> "absent"],
            dependencies |-> [n \in Names |-> <<>>]]
NoLast == [op |-> "none", dependant |-> Err, spec |-> <<>>, out |-> Err,
           consulted |-> {}, verdict |-> "none"]
EmptyFn == [x \in {} |-> Err]
NoCall == [n |-> 0, args |-> <<>>, returned |-> Err, raised |-> FALSE]
NoResponse == [method |-> "", id |-> 0, body |-> <<>>, status |-> 0, data |-> <<>>]
HeadRevision == "542bfbdef624"
DownRevision == "99fd5e88689c"
\* a schema of deps_association_table: its revision and the constraints in force
Migrated == [revision |-> HeadRevision, not_null |-> TRUE, unique |-> TRUE]
Unmigrated == [revision |-> DownRevision, not_null |-> FALSE, unique |-> FALSE]

\* ------------------------------------------------------- persistence store
LibraryIds == 1..Len(libraries)
TemplateIds == 1..Len(templates)

\* table_connection.get_db_library_by_name
get_db_library_by_name(name) ==
    IF \E l \in LibraryIds : libraries[l] = name
    THEN CHOOSE l \in LibraryIds : libraries[l] = name
    ELSE Err

\* create_db_library without the unique name
create_db_library_ok_AnyName(name) == name # None

\* table_connection.create_db_library: the name is required and unique
create_db_library_ok(name) ==
    name # None /\ get_db_library_by_name(name) = Err

\* table_connection.create_db_template: the name is unique within the library
create_db_template_ok(name, library_id) ==
    /\ Len(templates) < MaxTemplates
    /\ ~ \E t \in TemplateIds :
            templates[t].name = name /\ templates[t].library_id = library_id

\* table_connection.get_db_template_by_name: the rows of that name
get_db_template_by_name(name) ==
    {t \in TemplateIds : templates[t].name = name}

\* Template.load(id)
Template_load(id) == IF id \in TemplateIds THEN id ELSE Err

\* Library.get_templates: the templates of the library, in id order
RECURSIVE TemplatesFrom(_, _)
TemplatesFrom(library_id, t) ==
    IF t > Len(templates) THEN <<>>
    ELSE (IF templates[t].library_id = library_id THEN <<t>> ELSE <<>>)
         \o TemplatesFrom(library_id, t + 1)

get_templates(library_id) == TemplatesFrom(library_id, 1)

\* Library.get_template_by_name: the possible results (Err: ValueError or no row)
get_template_by_name(library_id, name) ==
    IF get_db_template_by_name(name) = {} THEN {Err}
    ELSE {IF templates[dbt].library_id # library_id THEN Err ELSE Template_load(dbt) :
            dbt \in get_db_template_by_name(name)}

\* ---------------------------------------------------- _template_dependency
from_dict(d, dependent_library_name) ==
    [template_name |-> d.template,
     bindings |-> d.args,
     library |-> IF d.library = None THEN dependent_library_name ELSE d.library,
     template_id |-> d.template_id]

\* to_template with the batch-local table asked before the explicit id
to_template_TableFirst(dep, id_lookup) ==
    IF dep.template_name \in DOMAIN id_lookup
    THEN {[out |-> Template_load(id_lookup[dep.template_name]),
           consulted |-> {"table"}]}
    ELSE IF dep.template_id # NoId
    THEN {[out |-> Template_load(dep.template_id), consulted |-> {"id", "table"}]}
    ELSE LET library == get_db_library_by_name(dep.library)
         IN  IF library = Err
             THEN {[out |-> Err, consulted |-> {"table", "library"}]}
             ELSE {[out |-> t, consulted |-> {"table", "library"}] :
                     t \in get_template_by_name(library, dep.template_name)}

\* to_template: the possible outcomes, each with the sources it consulted
to_template(dep, id_lookup) ==
    IF dep.template_id # NoId
    THEN {[out |-> Template_load(dep.template_id), consulted |-> {"id"}]}
    ELSE IF dep.template_name \in DOMAIN id_lookup
    THEN {[out |-> Template_load(id_lookup[dep.template_name]),
           consulted |-> {"table"}]}
    ELSE LET library == get_db_library_by_name(dep.library)
         IN  IF library = Err
             THEN {[out |-> Err, consulted |-> {"table", "library"}]}
             ELSE {[out |-> t, consulted |-> {"table", "library"}] :
                     t \in get_template_by_name(library, dep.template_name)}

\* ------------------------------------------------------ Template (spec 4.1)
RECURSIVE ReachFrom(_, _, _)
ReachFrom(rel, seen, n) ==
    IF n = 0 THEN seen
    ELSE ReachFrom(rel,
                   seen \cup UNION {{rel[t][k].dependee : k \in 1..Len(rel[t])} :
                                       t \in seen},
                   n - 1)

\* the templates reachable from t along the dependency relation rel (t included)
Reachable(rel, t) == ReachFrom(rel, {t}, Len(rel))

\* add_dependency without the cycle check
add_dependency_NoCycleCheck(self, other, bindings) ==
    IF other \notin TemplateIds THEN "NotFound"
    ELSE IF ~ ({b[1] : b \in bindings} \subseteq templates[other].params)
    THEN "BindingError"
    ELSE "ok"

\* Template.add_dependency: its verdict on the edge self -> other
add_dependency(self, other, bindings) ==
    IF other \notin TemplateIds THEN "NotFound"
    ELSE IF ~ ({b[1] : b \in bindings} \subseteq templates[other].params)
    THEN "BindingError"
    ELSE IF self \in Reachable(deps, other) THEN "CyclicDependencyError"
    ELSE "ok"

AddEdge(self, other, bindings) ==
    [deps EXCEPT ![self] = Append(@, [dependee |-> other, bindings |-> bindings])]

\* ------------------------------------------------------------------ Library
\* create_template that files the new template under the first library
create_template_WrongOwner(library_id, name, params) ==
    /\ templates' = Append(templates,
                           [name |-> name, library_id |-> 1, params |-> params])
    /\ deps' = Append(deps, <<>>)

\* Library.create_template
create_template(library_id, name, params) ==
    /\ templates' = Append(templates,
                           [name |-> name, library_id |-> library_id, params |-> params])
    /\ deps' = Append(deps, <<>>)

\* the loader forgets to record the new template in the table
record_lookup_Forgets(table, name, id) == table

\* template_id_lookup[name] = id (lines 213 and 286)
record_lookup(table, name, id) ==
    [n \in DOMAIN table \cup {name} |-> IF n = name THEN id ELSE table[n]]

\* dependency_cache[id] = deps (lines 212 and 285)
record_deps(cache, id, ds) ==
    [i \in DOMAIN cache \cup {id} |-> IF i = id THEN ds ELSE cache[i]]

\* the iteration of pass 2: the <<template, k>> of every cached dependency,
\* templates in get_templates order, dependencies in list order
RECURSIVE WorkOf(_, _)
WorkOf(ts, cache) ==
    IF ts = <<>> THEN <<>>
    ELSE (IF Head(ts) \in DOMAIN cache
          THEN [k \in 1..Len(cache[Head(ts)]) |-> <<Head(ts), k>>]
          ELSE <<>>)
         \o WorkOf(Tail(ts), cache)

Work == WorkOf(get_templates(lib), dependency_cache)

Init ==
    /\ libraries = <<>>
    /\ templates = <<>>
    /\ deps = <<>>
    /\ shapes = <<>>
    /\ pc = "idle"
    /\ lib = Err
    /\ template_id_lookup = EmptyFn
    /\ dependency_cache = EmptyFn
    /\ cursor = 1
    /\ ontology = NoGraph
    /\ reported = {}
    /\ result = "none"
    /\ last = NoLast
    /\ nloads = 0
    /\ sources = <<>>
    /\ call = NoCall
    /\ deps_association_table = <<>>
    /\ schema = Migrated
    /\ model_graph = <<>>
    /\ response = NoResponse

\* the load starts: its locals are fresh
StartLocals ==
    /\ template_id_lookup' = EmptyFn
    /\ dependency_cache' = EmptyFn
    /\ cursor' = 1
    /\ reported' = {}
    /\ last' = NoLast
    /\ nloads' = nloads + 1

\* Library.create, as the first statement of a loader
Create(name, next) ==
    IF create_db_library_ok(name)
    THEN /\ libraries' = Append(libraries, name)
         /\ shapes' = Append(shapes, {})
         /\ lib' = Len(libraries) + 1
         /\ pc' = next
         /\ result' = "running"
    ELSE /\ UNCHANGED <<libraries, shapes>>
         /\ lib' = Err
         /\ pc' = "idle"
         /\ result' = "CreationError"

\* _load_from_directory, line 261
DirBegin(name) ==
    /\ pc = "idle"
    /\ nloads < MaxLoads
    /\ StartLocals
    /\ Create(name, "dir_pass1")
    /\ ontology' = NoGraph
    /\ sources' = Append(sources, name)
    /\ UNCHANGED <<templates, deps, aux>>

\* _load_from_directory called on a directory of that name
DirStart(name) == DirBegin(name) /\ UNCHANGED call

\* _load_from_directory, lines 265-286: one entry of one file
DirEntry(e) ==
    /\ pc = "dir_pass1"
    /\ Len(templates) < MaxTemplates
    /\ IF e.malformed \/ ~ create_db_template_ok(e.name, lib)
       THEN /\ pc' = "idle"
            /\ result' = "CreationError"
            /\ UNCHANGED <<templates, deps, template_id_lookup, dependency_cache>>
       ELSE /\ create_template(lib, e.name, e.params)
            /\ dependency_cache' =
                  record_deps(dependency_cache, Len(templates) + 1,
                              [k \in 1..Len(e.dependencies) |->
                                 from_dict(e.dependencies[k], libraries[lib])])
            /\ template_id_lookup' =
                  record_lookup(template_id_lookup, e.name, Len(templates) + 1)
            /\ UNCHANGED <<pc, result>>
    /\ UNCHANGED <<libraries, shapes, lib, cursor, ontology, reported, last, nloads>>
    /\ UNCHANGED <<sources, call, aux>>

\* _load_from_directory, line 288: every file is read, pass 2 begins
DirPass2 ==
    /\ pc = "dir_pass1"
    /\ pc' = "dir_pass2"
    /\ UNCHANGED <<store, lib, template_id_lookup, dependency_cache, cursor,
                   ontology, reported, result, last, nloads>>
    /\ UNCHANGED <<sources, call, aux>>

\* the failure is only logged: the edge is dropped and pass 2 goes on
DirDependencyFailed_Continues(template, dep, verdict) ==
    /\ reported' = reported \cup {<<template, dep>>}
    /\ cursor' = cursor + 1
    /\ UNCHANGED <<deps, pc, result>>

\* only a dependee that is not found is raised again; a rejected edge is dropped
DirDependencyFailed_RaisesNotFound(template, dep, verdict) ==
    IF verdict = "NotFound"
    THEN /\ reported' = reported \cup {<<template, dep>>}
         /\ pc' = "idle"
         /\ result' = verdict
         /\ UNCHANGED <<deps, cursor>>
    ELSE DirDependencyFailed_Continues(template, dep, verdict)

\* _load_from_directory, lines 295-297: the warning, then the exception again
DirDependencyFailed(template, dep, verdict) ==
    /\ reported' = reported \cup {<<template, dep>>}
    /\ pc' = "idle"
    /\ result' = verdict
    /\ UNCHANGED <<deps, cursor>>

\* _load_from_directory, lines 291-297: one dependency of one template
DirDependency ==
    /\ pc = "dir_pass2"
    /\ cursor <= Len(Work)
    /\ LET template == Work[cursor][1]
           dep == dependency_cache[template][Work[cursor][2]]
       IN  \E r \in to_template(dep, template_id_lookup) :
             LET verdict == IF r.out = Err THEN "NotFound"
                            ELSE add_dependency(template, r.out, dep.bindings)
             IN  /\ last' = [op |-> "directory", dependant |-> template, spec |-> dep,
                             out |-> r.out, consulted |-> r.consulted,
                             verdict |-> verdict]
                 /\ IF verdict = "ok"
                    THEN /\ deps' = AddEdge(template, r.out, dep.bindings)
                         /\ cursor' = cursor + 1
                         /\ UNCHANGED <<pc, result, reported>>
                    ELSE DirDependencyFailed(template, dep, verdict)
    /\ UNCHANGED <<libraries, templates, shapes, lib, template_id_lookup,
                   dependency_cache, ontology, nloads>>
    /\ UNCHANGED <<sources, call, aux>>

\* _load_from_directory, lines 300-302, and _load_shapes_from_directory
DirShapes(files) ==
    /\ pc = "dir_pass2"
    /\ cursor > Len(Work)
    /\ shapes' = [shapes EXCEPT ![lib] = @ \cup files]
    /\ pc' = "idle"
    /\ result' = "returned"
    /\ UNCHANGED <<libraries, templates, deps, lib, template_id_lookup,
                   dependency_cache, cursor, ontology, reported, last, nloads>>
    /\ UNCHANGED <<sources, call, aux>>

\* ontology.subjects(RDF.type, OWL.Class) and (RDF.type, SH.NodeShape), intersected
class_candidates(g) == {n \in Names : g.kind[n] \in {"class", "both"}}
shape_candidates(g) == {n \in Names : g.kind[n] \in {"shape", "both"}}
\* the union of the two sets instead of their intersection
candidates_Union(g) == class_candidates(g) \cup shape_candidates(g)

candidates(g) == class_candidates(g) \cap shape_candidates(g)

\* ontology.value(predicate=RDF.type, object=OWL.Ontology, any=False):
\* the one declared identifier, None when there is none; raises when there are more
ontology_value(g) ==
    IF Cardinality(g.onts) > 1 THEN "UniquenessError"
    ELSE IF g.onts = {} THEN None
    ELSE CHOOSE o \in g.onts : TRUE

\* _load_from_ontology_graph, lines 193-200
OntBegin(g) ==
    /\ pc = "idle"
    /\ nloads < MaxLoads
    /\ Len(templates) + Cardinality(candidates(g)) <= MaxTemplates
    /\ StartLocals
    /\ ontology' = g
    /\ IF ontology_value(g) = "UniquenessError"
       THEN /\ result' = "UniquenessError"
            /\ pc' = "idle"
            /\ lib' = Err
            /\ UNCHANGED <<libraries, shapes>>
       ELSE Create(ontology_value(g), "ont_pass1")
    /\ UNCHANGED <<templates, deps, sources, aux>>

\* _load_from_ontology_graph called on that graph
OntStart(g) == OntBegin(g) /\ UNCHANGED call

\* _load_from_ontology_graph, lines 208-213: one candidate
OntCandidate(candidate) ==
    /\ pc = "ont_pass1"
    /\ candidate \in candidates(ontology) \ DOMAIN template_id_lookup
    /\ create_template(lib, candidate, {"name"})
    /\ dependency_cache' =
          record_deps(dependency_cache, Len(templates) + 1,
                      ontology.dependencies[candidate])
    /\ template_id_lookup' =
          record_lookup(template_id_lookup, candidate, Len(templates) + 1)
    /\ UNCHANGED <<libraries, shapes, pc, lib, cursor, ontology, reported, result,
                   last, nloads>>
    /\ UNCHANGED <<sources, call, aux>>

\* _load_from_ontology_graph, line 216: every candidate is created, pass 2 begins
OntPass2 ==
    /\ pc = "ont_pass1"
    /\ candidates(ontology) \subseteq DOMAIN template_id_lookup
    /\ pc' = "ont_pass2"
    /\ UNCHANGED <<store, lib, template_id_lookup, dependency_cache, cursor,
                   ontology, reported, result, last, nloads>>
    /\ UNCHANGED <<sources, call, aux>>

\* the warning is followed by a raise, as in directory mode
OntNotFound_Raises(template, dep) ==
    /\ reported' = reported \cup {<<template, dep>>}
    /\ pc' = "idle"
    /\ result' = "NotFound"
    /\ UNCHANGED <<deps, cursor>>

\* _load_from_ontology_graph, lines 223-224: the warning, and on to the next
OntNotFound(template, dep) ==
    /\ reported' = reported \cup {<<template, dep>>}
    /\ cursor' = cursor + 1
    /\ UNCHANGED <<deps, pc, result>>

\* _load_from_ontology_graph, lines 219-224: one dependency of one template
OntDependency ==
    /\ pc = "ont_pass2"
    /\ cursor <= Len(Work)
    /\ LET template == Work[cursor][1]
           dep == dependency_cache[template][Work[cursor][2]]
       IN  IF dep.template \in DOMAIN template_id_lookup
           THEN LET dependee == Template_load(template_id_lookup[dep.template])
                    verdict == add_dependency(template, dependee, dep.args)
                IN  /\ last' = [op |-> "ontology", dependant |-> template, spec |-> dep,
                                out |-> dependee, consulted |-> {"table"},
                                verdict |-> verdict]
                    /\ IF verdict = "ok"
                       THEN /\ deps' = AddEdge(template, dependee, dep.args)
                            /\ cursor' = cursor + 1
                            /\ UNCHANGED <<pc, result>>
                       ELSE /\ pc' = "idle"
                            /\ result' = verdict
                            /\ UNCHANGED <<deps, cursor>>
                    /\ UNCHANGED reported
           ELSE /\ last' = [op |-> "ontology", dependant |-> template, spec |-> dep,
                            out |-> Err, consulted |-> {"table"},
                            verdict |-> "NotFound"]
                /\ OntNotFound(template, dep)
    /\ UNCHANGED <<libraries, templates, shapes, lib, template_id_lookup,
                   dependency_cache, ontology, nloads>>
    /\ UNCHANGED <<sources, call, aux>>

\* _load_from_ontology_graph, lines 227-232
OntShapes ==
    /\ pc = "ont_pass2"
    /\ cursor > Len(Work)
    /\ shapes' = [shapes EXCEPT ![lib] = @ \cup {ontology}]
    /\ pc' = "idle"
    /\ result' = "returned"
    /\ UNCHANGED <<libraries, templates, deps, lib, template_id_lookup,
                   dependency_cache, cursor, ontology, reported, last, nloads>>
    /\ UNCHANGED <<sources, call, aux>>

Next ==
    \/ \E name \in LibNames : DirStart(name)
    \/ \E e \in Entries : DirEntry(e)
    \/ DirPass2
    \/ DirDependency
    \/ \E files \in ShapeFiles : DirShapes(files)
    \/ \E g \in Graphs : OntStart(g)
    \/ \E candidate \in Names : OntCandidate(candidate)
    \/ OntPass2
    \/ OntDependency
    \/ OntShapes

Spec == Init /\ [][Next]_vars

\* ------------------------------------------------------------ Library.load
\* the arguments of Library.load: a directory is a path that exists or not; the
\* graphs are two of Graphs, both declaring the ontology "M"
NoPath == [name |-> None, exists |-> FALSE]
Paths == {[name |-> "L", exists |-> TRUE], [name |-> "M", exists |-> FALSE]}
LoadGraphs ==
    {g \in Graphs : /\ g.onts = {"M"}
                    /\ g.kind = [n \in Names |-> "both"]
                    /\ g.dependencies["a"] = <<>>
                    /\ \A k \in 1..Len(g.dependencies["b"]) :
                          /\ g.dependencies["b"][k].template \in {"a", "c"}
                          /\ g.dependencies["b"][k].args = PlainArgs
                          /\ g.dependencies["b"][k].library = None
                          /\ g.dependencies["b"][k].template_id = NoId}
LoadArgs == [db_id : {NoId, 1}, ontology_graph : {NoGraph} \cup LoadGraphs,
             directory : {NoPath} \cup Paths, name : {None, "L"}]

\* everything but call
loadervars == <<libraries, templates, deps, shapes, pc, lib, template_id_lookup,
                dependency_cache, cursor, ontology, reported, result, last, nloads,
                sources, aux>>

\* the directory is tested before the ontology graph
load_source_DirectoryFirst(a) ==
    IF a.db_id # NoId THEN "db_id"
    ELSE IF a.directory # NoPath THEN "directory"
    ELSE IF a.ontology_graph # NoGraph THEN "ontology_graph"
    ELSE IF a.name # None THEN "name"
    ELSE "none"

\* Library.load, lines 129-149: the if/elif chain over the arguments
load_source(a) ==
    IF a.db_id # NoId THEN "db_id"
    ELSE IF a.ontology_graph # NoGraph THEN "ontology_graph"
    ELSE IF a.directory # NoPath THEN "directory"
    ELSE IF a.name # None THEN "name"
    ELSE "none"

\* the call ended without a loader: it returned library id, or raised
Returned(a, id) ==
    /\ call' = [n |-> call.n + 1, args |-> a, returned |-> id, raised |-> id = Err]
    /\ UNCHANGED loadervars

\* the call went on in a loader
Entered(a) ==
    call' = [n |-> call.n + 1, args |-> a, returned |-> Err, raised |-> FALSE]

\* Library.load
Load(a) ==
    /\ pc = "idle"
    /\ call.n < MaxLoads
    /\ CASE load_source(a) = "db_id" ->
              \* _load_from_db, lines 160-163
              Returned(a, IF a.db_id \in LibraryIds THEN a.db_id ELSE Err)
         [] load_source(a) = "ontology_graph" ->
              OntBegin(a.ontology_graph) /\ Entered(a)
         [] load_source(a) = "directory" ->
              IF ~ a.directory.exists
              THEN Returned(a, Err)
              ELSE DirBegin(a.directory.name) /\ Entered(a)
         [] load_source(a) = "name" ->
              Returned(a, get_db_library_by_name(a.name))
         [] OTHER -> Returned(a, Err)

LoadNext ==
    \/ \E a \in LoadArgs : Load(a)
    \/ \E e \in Entries : DirEntry(e)
    \/ DirPass2
    \/ DirDependency
    \/ \E files \in ShapeFiles : DirShapes(files)
    \/ \E candidate \in Names : OntCandidate(candidate)
    \/ OntPass2
    \/ OntDependency
    \/ OntShapes

LoadSpec == Init /\ [][LoadNext]_vars

\* ------------------------------------------- migration 542bfbdef624
NULL == 0
RowIds == {NULL, 1, 2}
\* bindings as the caller gives them: the (key, value) pairs in dict order
ArgItems == {<<<<"a", "x">>>>,
             <<<<"a", "x">>, <<"b", "y">>>>,
             <<<<"b", "y">>, <<"a", "x">>>>}

\* the stored form of bindings: a JSON object before the upgrade, the list of
\* (key, value) pairs from it
stored_args(revision, items) ==
    [kind |-> IF revision = HeadRevision THEN "list" ELSE "dict", items |-> items]

\* upgrade, lines 44-45: dep.args = [(k, v) for k, v in args.items()]
reserialize(row) == [row EXCEPT !.args = [kind |-> "list", items |-> @.items]]

\* alter_column(..., nullable=False) on dependant_id and dependee_id
not_null_constraint(rows) ==
    \A i \in 1..Len(rows) : rows[i].dependant_id # NULL /\ rows[i].dependee_id # NULL

\* the unique constraint is not created
unique_constraint_Missing(rows) == TRUE

\* create_unique_constraint(["dependant_id", "dependee_id", "args"])
unique_constraint(rows) ==
    \A i, j \in 1..Len(rows) :
        (/\ rows[i].dependant_id = rows[j].dependant_id
         /\ rows[i].dependee_id = rows[j].dependee_id
         /\ rows[i].args = rows[j].args) => i = j

\* the constraints of a schema hold of the rows
Accepts(sch, rows) ==
    /\ sch.not_null => not_null_constraint(rows)
    /\ sch.unique => unique_constraint(rows)

migrationvars == <<libraries, templates, deps, shapes, pc, lib, template_id_lookup,
                   dependency_cache, cursor, ontology, reported, last, nloads,
                   sources, call, model_graph, response>>

\* session.add(DepsAssociation(...)) and commit: one more dependency row
AddRow(dependant_id, dependee_id, items) ==
    /\ LET row == [dependant_id |-> dependant_id, dependee_id |-> dependee_id,
                   args |-> stored_args(schema.revision, items)]
       IN  IF Accepts(schema, Append(deps_association_table, row))
           THEN /\ Len(deps_association_table) < MaxRows
                /\ deps_association_table' = Append(deps_association_table, row)
                /\ result' = "ok"
           ELSE /\ UNCHANGED deps_association_table
                /\ result' = "IntegrityError"
    /\ UNCHANGED <<schema, migrationvars>>

\* upgrade, lines 22-47: the constraints are created over the rows there are,
\* then every row is stored again with its bindings as a list of pairs
Upgrade ==
    /\ schema.revision = DownRevision
    /\ LET rows == [i \in 1..Len(deps_association_table) |->
                      reserialize(deps_association_table[i])]
       IN  IF Accepts(Migrated, deps_association_table) /\ Accepts(Migrated, rows)
           THEN /\ schema' = Migrated
                /\ deps_association_table' = rows
                /\ result' = "upgraded"
           ELSE /\ UNCHANGED <<schema, deps_association_table>>
                /\ result' = "IntegrityError"
    /\ UNCHANGED migrationvars

\* downgrade, lines 55-61: the unique constraint and the id column are dropped,
\* the two columns stay NOT NULL
Downgrade ==
    /\ schema.revision = HeadRevision
    /\ schema' = [revision |-> DownRevision, not_null |-> TRUE, unique |-> FALSE]
    /\ result' = "downgraded"
    /\ UNCHANGED <<deps_association_table, migrationvars>>

MigrationInit ==
    /\ libraries = <<>>
    /\ templates = <<>>
    /\ deps = <<>>
    /\ shapes = <<>>
    /\ pc = "idle"
    /\ lib = Err
    /\ template_id_lookup = EmptyFn
    /\ dependency_cache = EmptyFn
    /\ cursor = 1
    /\ ontology = NoGraph
    /\ reported = {}
    /\ result = "none"
    /\ last = NoLast
    /\ nloads = 0
    /\ sources = <<>>
    /\ call = NoCall
    /\ deps_association_table = <<>>
    /\ schema = Unmigrated
    /\ model_graph = <<>>
    /\ response = NoResponse

MigrationNext ==
    \/ \E dependant_id, dependee_id \in RowIds : \E items \in ArgItems :
          AddRow(dependant_id, dependee_id, items)
    \/ Upgrade
    \/ Downgrade

MigrationSpec == MigrationInit /\ [][MigrationNext]_vars

\* ------------------------------------------- the model graph API
RDF_type == "rdf:type"
\* the graph of a model just created: it declares the model an ontology
declaration == <<"urn:my_model", RDF_type, "owl:Ontology">>
default_graph == {declaration}
shape1 == <<"urn:my_model#shape1", RDF_type, "bmotif:HVAC">>
shape2 == <<"urn:my_model#shape2", RDF_type, "bmotif:Lighting">>
shape3 == <<"urn:my_model#shape3", RDF_type, "bmotif:Electrical">>
\* a request body: the statements of a Turtle document, in document order
graph_data == <<shape1, shape2, shape3>>
Bodies == {graph_data, <<>>, <<shape2, shape2>>, <<shape3, shape1>>,
           <<declaration, shape1>>}
NoModel == 0 - 1
ModelIds == {NoModel} \cup (1..MaxModels)

\* Graph().parse(data=..., format="ttl"): the set of the document's statements
parse(data) == {data[i] : i \in 1..Len(data)}

\* graph.serialize(format="ttl"): a document with each triple stated once
serialize(graph) ==
    CHOOSE data \in [1..Cardinality(graph) -> graph] : parse(data) = graph

\* PUT keeps the triples of the stored graph
put_graph_Appends(graph, body) == graph \cup parse(body)

\* PUT /models/<id>/graph: the graph of the body replaces the stored one
put_graph(graph, body) == parse(body)

\* PATCH drops the triples of the stored graph
patch_graph_Overwrites(graph, body) == parse(body)

\* PATCH /models/<id>/graph: the graph of the body is added to the stored one
patch_graph(graph, body) == graph \cup parse(body)

apivars == <<libraries, templates, deps, shapes, pc, lib, template_id_lookup,
             dependency_cache, cursor, ontology, reported, result, last, nloads,
             sources, call, deps_association_table, schema>>

NotFound(method, id, body) ==
    /\ response' = [method |-> method, id |-> id, body |-> body,
                    status |-> 404, data |-> <<>>]
    /\ UNCHANGED model_graph

Updated(method, id, body, graph) ==
    /\ model_graph' = [model_graph EXCEPT ![id] = graph]
    /\ response' = [method |-> method, id |-> id, body |-> body,
                    status |-> 200, data |-> serialize(graph)]

\* Model.create(name)
ModelCreate ==
    /\ Len(model_graph) < MaxModels
    /\ model_graph' = Append(model_graph, default_graph)
    /\ UNCHANGED <<response, apivars>>

\* client.get("/models/<id>/graph")
GetGraph(id) ==
    /\ IF id \in DOMAIN model_graph
       THEN /\ response' = [method |-> "GET", id |-> id, body |-> <<>>,
                            status |-> 200, data |-> serialize(model_graph[id])]
            /\ UNCHANGED model_graph
       ELSE NotFound("GET", id, <<>>)
    /\ UNCHANGED apivars

\* client.put("/models/<id>/graph", data=body)
PutGraph(id, body) ==
    /\ IF id \in DOMAIN model_graph
       THEN Updated("PUT", id, body, put_graph(model_graph[id], body))
       ELSE NotFound("PUT", id, body)
    /\ UNCHANGED apivars

\* client.patch("/models/<id>/graph", data=body)
PatchGraph(id, body) ==
    /\ IF id \in DOMAIN model_graph
       THEN Updated("PATCH", id, body, patch_graph(model_graph[id], body))
       ELSE NotFound("PATCH", id, body)
    /\ UNCHANGED apivars

ApiInit ==
    /\ libraries = <<>>
    /\ templates = <<>>
    /\ deps = <<>>
    /\ shapes = <<>>
    /\ pc = "idle"
    /\ lib = Err
    /\ template_id_lookup = EmptyFn
    /\ dependency_cache = EmptyFn
    /\ cursor = 1
    /\ ontology = NoGraph
    /\ reported = {}
    /\ result = "none"
    /\ last = NoLast
    /\ nloads = 0
    /\ sources = <<>>
    /\ call = NoCall
    /\ deps_association_table = <<>>
    /\ schema = Migrated
    /\ model_graph = <<>>
    /\ response = NoResponse

ApiNext ==
    \/ ModelCreate
    \/ \E id \in ModelIds : GetGraph(id)
    \/ \E id \in ModelIds : \E body \in Bodies : PutGraph(id, body)
    \/ \E id \in ModelIds : \E body \in Bodies : PatchGraph(id, body)

ApiSpec == ApiInit /\ [][ApiNext]_vars

\* the loader of the load in progress, or of the last one
Mode == IF nloads = 0 THEN "none"
        ELSE IF ontology = NoGraph THEN "directory" ELSE "ontology"

\* the templates of the library being loaded: the batch
Batch == {t \in TemplateIds : templates[t].library_id = lib}

\* the libraries that own a template named name
OwnersOf(name) == {templates[t].library_id : t \in get_db_template_by_name(name)}

\* ------------------------------------------------------------------ claims

\* C1: resolving a raw dependency spec follows a fixed precedence.  With an
\* explicit id the template of that id is the result and only the id is
\* consulted; otherwise a name in the batch-local table gives the id stored
\* there and no library is consulted; otherwise the result, when there is one,
\* is the template of that name owned by the library the spec names, and there
\* is one whenever that library is the only owner of a template of that name.
C1_Precedence ==
    last.op = "directory" =>
        LET d == last.spec
        IN  IF d.template_id # NoId
            THEN /\ last.consulted = {"id"}
                 /\ last.out = (IF d.template_id \in TemplateIds THEN d.template_id ELSE Err)
            ELSE IF d.template_name \in DOMAIN template_id_lookup
            THEN /\ last.consulted = {"table"}
                 /\ last.out = template_id_lookup[d.template_name]
            ELSE /\ last.consulted = {"table", "library"}
                 /\ last.out # Err =>
                       /\ templates[last.out].name = d.template_name
                       /\ libraries[templates[last.out].library_id] = d.library
                 /\ (\E l \in LibraryIds :
                        libraries[l] = d.library /\ OwnersOf(d.template_name) = {l})
                       => last.out # Err

\* an explicit id won over a name that is in the table and names another template
C1_Witness ==
    /\ last.op = "directory"
    /\ last.spec.template_id # NoId
    /\ last.out # Err
    /\ last.spec.template_name \in DOMAIN template_id_lookup
    /\ template_id_lookup[last.spec.template_name] # last.out
    /\ libraries[templates[last.out].library_id] # last.spec.library

\* C2: in both loaders an edge is attached only in pass 2, when every template
\* of the batch is created and recorded in the batch-local table, and no
\* template is created once an edge of the batch is attached; a spec without
\* explicit id that names a template of the batch, also one created after the
\* dependant, resolves to that template.
C2_BatchRecorded ==
    /\ \A t \in Batch : /\ templates[t].name \in DOMAIN template_id_lookup
                         /\ template_id_lookup[templates[t].name] = t
                         /\ t \in DOMAIN dependency_cache
    /\ Mode = "ontology" => candidates(ontology) = {templates[t].name : t \in Batch}

C2_ForwardResolved ==
    (last.op # "none" /\ (last.op = "directory" => last.spec.template_id = NoId)) =>
        \A t \in Batch :
            templates[t].name = (IF last.op = "directory" THEN last.spec.template_name
                                 ELSE last.spec.template)
                => last.out = t

C2_Step ==
    /\ (Len(deps') = Len(deps) /\ deps' # deps) =>
          (pc \in {"dir_pass2", "ont_pass2"} /\ C2_BatchRecorded)
    /\ (Len(templates') > Len(templates)) => (\A t \in Batch : deps[t] = <<>>)

C2_TwoPass == [][C2_Step]_vars /\ [](C2_ForwardResolved)

\* an edge is attached to a template that was created after its dependant
C2_Witness ==
    /\ last.op # "none"
    /\ last.verdict = "ok"
    /\ last.out > last.dependant
    /\ last.out \in Batch
    /\ deps[last.dependant] # <<>>

\* C3: a directory-mode load in which the creation of a template fails persists
\* no template of that directory.
C3_NothingPersists ==
    (Mode = "directory" /\ pc = "idle" /\ result = "CreationError" /\ lib # Err)
        => Batch = {}

\* C4, as claimed: in directory mode a dependency whose dependee cannot be
\* resolved does not end the load.
C4_NonFatal ==
    (last.op = "directory" /\ last.verdict = "NotFound")
        => result \in {"running", "returned"}

\* the edges attached so far are those of the dependencies before the cursor
EdgesAttached ==
    LET n == Cardinality({w \in 1..Len(Work) : w < cursor})
    IN  /\ \A t \in Batch :
              Len(deps[t]) = Cardinality({w \in 1..Len(Work) :
                                            w < cursor /\ Work[w][1] = t})
        /\ n = cursor - 1

\* C4, amended: in directory mode a dependency whose dependee cannot be resolved
\* ends the load: it is reported and raised again, no edge is attached for it
\* nor for any dependency after it, the shape files are not loaded, the load
\* returns no library, and the library and the templates of pass 1 remain.
C4_Fatal ==
    (last.op = "directory" /\ last.verdict = "NotFound") =>
        /\ pc = "idle"
        /\ result = "NotFound"
        /\ <<last.dependant, last.spec>> \in reported
        /\ cursor <= Len(Work)
        /\ Work[cursor][1] = last.dependant
        /\ EdgesAttached
        /\ shapes[lib] = {}
        /\ lib \in LibraryIds
        /\ DOMAIN dependency_cache = Batch

\* an unresolved dependency with another, resolvable one after it
C4_Witness ==
    /\ last.op = "directory"
    /\ last.verdict = "NotFound"
    /\ cursor < Len(Work)
    /\ LET t == Work[cursor + 1][1]
           d == dependency_cache[t][Work[cursor + 1][2]]
       IN  /\ d.template_id = NoId
           /\ d.template_name \in DOMAIN template_id_lookup
           /\ add_dependency(t, template_id_lookup[d.template_name], d.bindings) = "ok"

\* C5: in ontology mode a dependee name that is not found never ends the load:
\* it is reported and pass 2 goes on; no ontology load ends with it; and a load
\* that returns after reporting has attached an edge for every dependency whose
\* dependee is in the table and has stored the graph in the ShapeCollection.
C5_ReportedOnly ==
    Mode = "ontology" =>
        /\ result # "NotFound"
        /\ (last.op = "ontology" /\ last.verdict = "NotFound") =>
              /\ result \in {"running", "returned"}
              /\ <<last.dependant, last.spec>> \in reported
        /\ (result = "returned" /\ reported # {}) =>
              /\ ontology \in shapes[lib]
              /\ \A t \in Batch :
                    deps[t] = [k \in 1..Len(SelectSeq(dependency_cache[t],
                                  LAMBDA d : d.template \in DOMAIN template_id_lookup)) |->
                                 LET d == SelectSeq(dependency_cache[t],
                                  LAMBDA x : x.template \in DOMAIN template_id_lookup)[k]
                                 IN  [dependee |-> template_id_lookup[d.template],
                                      bindings |-> d.args]]

\* a load returned with one dependency reported and another one attached
C5_Witness ==
    /\ Mode = "ontology"
    /\ result = "returned"
    /\ reported # {}
    /\ \E t \in Batch : deps[t] # <<>>

\* C6: an ontology-mode load of a graph that declares no ontology identifier, or
\* more than one, fails with the ambiguous-ontology error; with exactly one the
\* library is named by it.
C6_Ambiguous ==
    Mode = "ontology" =>
        IF Cardinality(ontology.onts) # 1
        THEN result = "UniquenessError"
        ELSE lib # Err => libraries[lib] \in ontology.onts

\* C7: a load in ontology mode creates templates only for nodes declared both a
\* class and a shape, one each and named after the node; a load that returns
\* has one for every such node; two such nodes that do not name each other give
\* two templates and no edge.
C7_Candidates ==
    Mode = "ontology" =>
        /\ \A t \in Batch : ontology.kind[templates[t].name] = "both"
        /\ \A t, u \in Batch : templates[t].name = templates[u].name => t = u
        /\ result = "returned" =>
              /\ \A n \in Names : ontology.kind[n] = "both" =>
                                      \E t \in Batch : templates[t].name = n
              /\ (/\ Cardinality({n \in Names : ontology.kind[n] = "both"}) = 2
                  /\ \A n \in Names : \A k \in 1..Len(ontology.dependencies[n]) :
                         \/ ontology.dependencies[n][k].template = n
                         \/ ontology.dependencies[n][k].template
                              \notin candidates(ontology))
                    => /\ Cardinality(Batch) = 2
                       /\ \A t \in Batch : deps[t] = <<>>

\* a load returned for a graph with a node that is both and a node that is not
C7_Witness ==
    /\ Mode = "ontology"
    /\ result = "returned"
    /\ Cardinality(Batch) = 1
    /\ \E n \in Names : ontology.kind[n] = "class"

\* C8: in pass 2 of ontology mode a dependency is reported as unresolved only
\* when the three-step resolution of its spec finds no template to attach: a
\* dependee outside the batch that is a persisted template is attached.
C8_SameResolution ==
    (last.op = "ontology" /\ last.verdict = "NotFound") =>
        \A r \in to_template(from_dict(last.spec, libraries[lib]), template_id_lookup) :
            \/ r.out = Err
            \/ add_dependency(last.dependant, r.out, last.spec.args) # "ok"

\* the transitive closure of the stored dependency relation contains t -> t
RECURSIVE PathWithin(_, _, _)
PathWithin(t, u, n) ==
    IF n = 0 THEN FALSE
    ELSE \E k \in 1..Len(deps[t]) :
            \/ deps[t][k].dependee = u
            \/ PathWithin(deps[t][k].dependee, u, n - 1)

Acyclic == \A t \in TemplateIds : ~ PathWithin(t, t, Len(templates))

\* C9: the stored dependency relation is acyclic in every state, whatever loads
\* ran and however they ended; an edge that would close a cycle is rejected
\* when it is inserted, and the rejection leaves every dependency list as it was.
C9_Step ==
    (last' # last /\ last'.verdict = "CyclicDependencyError") => deps' = deps

C9_Acyclic == [](Acyclic) /\ [][C9_Step]_vars

\* B was attached to A, and the edge from B back to A is rejected
C9_Witness ==
    /\ last.verdict = "CyclicDependencyError"
    /\ last.out # last.dependant
    /\ \E k \in 1..Len(deps[last.out]) : deps[last.out][k].dependee = last.dependant
    /\ deps[last.dependant] = <<>>

\* C10: a step of the load of a library changes no other library: the templates
\* of every other library, their dependency lists and the ShapeCollection of
\* every other library stay as they are, and no library record changes.
C10_Step ==
    /\ \A l \in LibraryIds : libraries'[l] = libraries[l]
    /\ \A l \in LibraryIds : l # lib' => shapes'[l] = shapes[l]
    /\ \A t \in 1..Len(templates') :
          templates'[t].library_id # lib' =>
              /\ t \in TemplateIds
              /\ templates'[t] = templates[t]
              /\ deps'[t] = deps[t]
    /\ \A t \in TemplateIds : templates'[t] = templates[t]

C10_Frame == [][C10_Step]_vars

\* the second library is loaded, with an edge into the first, which has its own
C10_Witness ==
    /\ Len(libraries) = 2
    /\ lib = 2
    /\ \E t \in Batch : \E k \in 1..Len(deps[t]) :
          templates[deps[t][k].dependee].library_id = 1
    /\ shapes[1] # {}
    /\ shapes[2] # {}

\* C16: in directory mode the first dependency that cannot be resolved or
\* attached ends the load with its exception: it is reported, the edges attached
\* are exactly those of the dependencies before it, the shape files are not
\* parsed into the ShapeCollection, and the library record and every template
\* of pass 1 remain.
C16_Reraises ==
    (last.op = "directory" /\ last.verdict # "ok") =>
        /\ pc = "idle"
        /\ result = last.verdict
        /\ result \in {"NotFound", "BindingError", "CyclicDependencyError"}
        /\ reported = {<<last.dependant, last.spec>>}
        /\ cursor <= Len(Work)
        /\ Work[cursor][1] = last.dependant
        /\ EdgesAttached
        /\ shapes[lib] = {}
        /\ lib \in LibraryIds
        /\ DOMAIN dependency_cache = Batch
        /\ \A n \in DOMAIN template_id_lookup :
              /\ template_id_lookup[n] \in Batch
              /\ templates[template_id_lookup[n]].name = n

\* an edge is rejected by add_dependency and a dependency after it stays unattached
C16_Witness ==
    /\ last.op = "directory"
    /\ last.verdict \in {"BindingError", "CyclicDependencyError"}
    /\ cursor < Len(Work)
    /\ deps[Work[cursor + 1][1]] = <<>>
    /\ Cardinality(Batch) = 2

\* C17: get_template_by_name of library l gives the template that l owns under
\* that name whenever l owns one, whatever other libraries own, and raises
\* when l owns none.
C17_ScopedByLibrary ==
    \A l \in LibraryIds : \A n \in Names :
        LET own == {t \in TemplateIds :
                      templates[t].name = n /\ templates[t].library_id = l}
        IN  get_template_by_name(l, n) = (IF own = {} THEN {Err} ELSE own)

\* C18: a spec without explicit id resolves to a template owned by the library
\* the spec names.
C18_NamedLibraryOwns ==
    (last.op = "directory" /\ last.spec.template_id = NoId /\ last.out # Err) =>
        libraries[templates[last.out].library_id] = last.spec.library

\* the names of the dependees of template t, with the bindings, in list order
DependeeNames(t) ==
    [k \in 1..Len(deps[t]) |-> <<templates[deps[t][k].dependee].name, deps[t][k].bindings>>]

\* the directory of the load in progress was loaded before
LoadedBefore ==
    /\ sources # <<>>
    /\ \E k \in 1..(Len(sources) - 1) : sources[k] = sources[Len(sources)]

C11_Step ==
    (Len(sources') > Len(sources) /\
     \E k \in 1..Len(sources) : sources[k] = sources'[Len(sources')]) =>
        /\ result' = "CreationError"
        /\ lib' = Err
        /\ pc' = "idle"
        /\ store' = store

C15_Step ==
    call'.n > call.n =>
        LET a == call'.args
            lookup == store' = store /\ nloads' = nloads /\ pc' = "idle"
        IN  IF a.db_id # NoId
            THEN /\ lookup
                 /\ call'.returned = (IF a.db_id \in LibraryIds THEN a.db_id ELSE Err)
            ELSE IF a.ontology_graph # NoGraph
            THEN /\ nloads' = nloads + 1
                 /\ ontology' = a.ontology_graph
                 /\ sources' = sources
                 /\ ~ call'.raised
            ELSE IF a.directory # NoPath
            THEN IF a.directory.exists
                 THEN /\ nloads' = nloads + 1
                      /\ ontology' = NoGraph
                      /\ sources' = Append(sources, a.directory.name)
                      /\ ~ call'.raised
                 ELSE lookup /\ call'.raised /\ sources' = sources
            ELSE IF a.name # None
            THEN /\ lookup
                 /\ \/ call'.returned \in LibraryIds /\ libraries[call'.returned] = a.name
                    \/ call'.raised /\ \A l \in LibraryIds : libraries[l] # a.name
            ELSE lookup /\ call'.raised

C15_Precedence == [][C15_Step]_vars

\* the graph was loaded although a directory and a name were given as well
C15_Witness ==
    /\ call.n > 0
    /\ call.args.db_id = NoId
    /\ call.args.ontology_graph # NoGraph
    /\ call.args.directory.exists
    /\ call.args.name # None
    /\ Mode = "ontology"
    /\ result = "returned"
    /\ sources = <<>>

\* C12: while the database is at the revision of the upgrade, no two dependency
\* rows have the same dependant id, dependee id and stored bindings, and no row
\* has a null dependant id or dependee id; adding a row that repeats the three
\* of a stored row leaves the table as it was.
C12_Rows ==
    schema.revision = HeadRevision =>
        /\ \A i, j \in 1..Len(deps_association_table) :
              (/\ deps_association_table[i].dependant_id = deps_association_table[j].dependant_id
               /\ deps_association_table[i].dependee_id = deps_association_table[j].dependee_id
               /\ deps_association_table[i].args.items = deps_association_table[j].args.items)
                 => i = j
        /\ \A i \in 1..Len(deps_association_table) :
              /\ deps_association_table[i].dependant_id \in RowIds \ {NULL}
              /\ deps_association_table[i].dependee_id \in RowIds \ {NULL}
              /\ deps_association_table[i].args.kind = "list"

C12_Step ==
    (schema.revision = HeadRevision /\ schema' = schema) =>
        \/ deps_association_table' = deps_association_table
        \/ /\ Len(deps_association_table') = Len(deps_association_table) + 1
           /\ \A i \in 1..Len(deps_association_table) :
                 /\ deps_association_table'[i] = deps_association_table[i]
                 /\ deps_association_table'[Len(deps_association_table')]
                      # deps_association_table[i]

C12_NoDuplicates == [](C12_Rows) /\ [][C12_Step]_vars

\* after the upgrade of a table with a row, the same dependee is attached again
\* to its dependant with other bindings, and a repetition is rejected
C12_Witness ==
    /\ schema.revision = HeadRevision
    /\ result = "IntegrityError"
    /\ Len(deps_association_table) = 2
    /\ deps_association_table[1].dependant_id = deps_association_table[2].dependant_id
    /\ deps_association_table[1].dependee_id = deps_association_table[2].dependee_id
    /\ deps_association_table[1].args # deps_association_table[2].args

\* C13: after a PUT that succeeded, the graph stored for the model is exactly
\* the graph of the request's body, and the response's document parses to that
\* same graph.
C13_Overwrites ==
    (response.method = "PUT" /\ response.status = 200) =>
        /\ response.id \in DOMAIN model_graph
        /\ model_graph[response.id] = parse(response.body)
        /\ parse(response.data) = parse(response.body)

\* a PUT whose body lacks the triple the model was created with removed it
C13_Witness ==
    /\ response.method = "PUT"
    /\ response.status = 200
    /\ response.body = graph_data
    /\ model_graph[response.id] = {shape1, shape2, shape3}
    /\ model_graph[response.id] \cap default_graph = {}

\* C14: a PATCH that succeeds leaves the model with the union of the graph it
\* had and the graph of the request's body, and the response's document parses
\* to that union.
C14_Step ==
    (/\ response'.method = "PATCH"
     /\ response'.status = 200
     /\ Len(model_graph') = Len(model_graph)) =>
        /\ response'.id \in DOMAIN model_graph
        /\ model_graph'[response'.id] =
              model_graph[response'.id] \cup parse(response'.body)
        /\ parse(response'.data) = model_graph'[response'.id]
        /\ \A id \in DOMAIN model_graph :
              id # response'.id => model_graph'[id] = model_graph[id]

C14_Appends == [][C14_Step]_vars

\* a PATCH of the three shapes to a model just created kept its first triple
C14_Witness ==
    /\ response.method = "PATCH"
    /\ response.status = 200
    /\ response.body = graph_data
    /\ model_graph[response.id] = {shape1, shape2, shape3} \cup default_graph
====
